---- MODULE Spec2Model ----
(***************************************************************************)
(* Model of the Excel-driven HTTP regression runner (package runner):      *)
(* case resolution (parseRow, initGlobalConfig, findFirstBaseURL), the     *)
(* worker pool of Run/worker, executeTest and the result collation.        *)
(*                                                                         *)
(* Conventions.  `rows` is testCases = rows[1:] of Run, i.e. the sheet     *)
(* without its label row.  TLA+ sequences are 1-based: the Go row index i  *)
(* is the TLA+ index i+1, and Cell(row, k) is the Go expression row[k].    *)
(* A method cell is a sequence of one-character strings so that            *)
(* strings.TrimSpace and strings.ToUpper can be computed; every other cell *)
(* is a string.  A Go panic in any goroutine ends the process: it is       *)
(* recorded in `crash` and disables every action.                          *)
(***************************************************************************)
EXTENDS Integers, Sequences, FiniteSets, TLC

VARIABLES
    rows,           \* testCases: the rows of the sheet after the label row
    cfg,            \* Runner.config: Concurrent, BaseURL, Authorization
    firstToken,     \* Runner.firstToken
    globalHeaders,  \* Runner.globalHeaders
    runPc,          \* position of Run
    idx,            \* loop index of the dispatch loop (next TLA+ index)
    totalTests,     \* Run's totalTests counter
    jobChan,        \* buffered job channel (content)
    jobsClosed,     \* close(jobChan) has happened
    resultChan,     \* buffered result channel (content)
    wg,             \* sync.WaitGroup counter
    wpc,            \* position of each worker goroutine
    wjob,           \* the job a worker holds
    wres,           \* the result a worker holds
    results,        \* the slice Run returns
    crash,          \* "none", or the place of the panic that ended the process
    parsed,         \* history: outcome of parseRow for each row dispatched
    taken,          \* history: number of jobs received from jobChan
    produced        \* history: results in the order the workers sent them

vars == <<rows, cfg, firstToken, globalHeaders, runPc, idx, totalTests,
          jobChan, jobsClosed, resultChan, wg, wpc, wjob, wres, results,
          crash, parsed, taken, produced>>

----------------------------------------------------------------------------
(* Bounds *)

MaxRows == 3        \* rows after the label row, pool specification
MaxW == 2           \* pool width, pool specification
MaxCaseRows == 3    \* rows after the label row, resolution specification

----------------------------------------------------------------------------
(* Cells and rows *)

Cell(row, k) == row[k + 1]

EmptyMap == [k \in {} |-> ""]

mGET == <<"G", "E", "T">>
mPost == <<"p", "o", "s", "t">>
mGetPadded == <<" ", "g", "e", "t", " ">>
mFOO == <<"F", "O", "O">>
mEmpty == <<>>

hdrRow == "{\"X\":\"row\"}"
hdrGlobal == "{\"X\":\"glob\",\"Y\":\"glob\"}"
hdrBad == "{bad"

okBody == "{\"code\":0}"
failBody == "{\"code\":1}"
bNoCode == "{\"msg\":\"ok\"}"
bCodeStr == "{\"code\":\"0\"}"
bCodeTrue == "{\"code\":true}"
bCodeObj == "{\"code\":{\"n\":0}}"
bCodeArr == "{\"code\":[0]}"
bData == "{\"code\":0,\"data\":{\"id\":1}}"
bDataExtra == "{\"code\":0,\"data\":{\"id\":1,\"extra\":\"x\"}}"
bDataNoId == "{\"code\":0,\"data\":{\"extra\":\"x\"}}"
bList12 == "{\"code\":0,\"list\":[1,2]}"
bList123 == "{\"code\":0,\"list\":[1,2,3]}"
bMsgRegex == "{\"code\":0,\"msg\":\"^ok.*$\"}"
bMsgTok == "{\"code\":0,\"msg\":\"ok-token123\"}"
bMsgAbc == "{\"code\":0,\"msg\":\"abc\"}"
bMsgNum == "{\"code\":0,\"msg\":42}"
bMsgData == "{\"code\":0,\"msg\":\"abc\",\"data\":{\"id\":1}}"
bNull == "null"
bNotJSON == "not json"

\* A row of n cells in the 12-column layout of the sheet.
MkRow(n, name, method, path, hdr, strict, base, token, gh) ==
    SubSeq(<<name, method, path, "", "", "", hdr, okBody, strict, base, token, gh>>, 1, n)

----------------------------------------------------------------------------
(* isHTTPMethod *)

IsSpace(c) == c \in {" ", "\t"}

ToUpperChar(c) ==
    CASE c = "g" -> "G" [] c = "e" -> "E" [] c = "t" -> "T"
      [] c = "p" -> "P" [] c = "o" -> "O" [] c = "s" -> "S"
      [] OTHER -> c

ToUpper(s) == [k \in 1..Len(s) |-> ToUpperChar(s[k])]

RECURSIVE TrimLeft(_)
TrimLeft(s) == IF s # <<>> /\ IsSpace(Head(s)) THEN TrimLeft(Tail(s)) ELSE s

RECURSIVE TrimRight(_)
TrimRight(s) ==
    IF s # <<>> /\ IsSpace(s[Len(s)]) THEN TrimRight(SubSeq(s, 1, Len(s) - 1)) ELSE s

TrimSpace(s) == TrimRight(TrimLeft(s))

methods ==
    { <<"G", "E", "T">>, <<"P", "O", "S", "T">>, <<"P", "U", "T">>,
      <<"D", "E", "L", "E", "T", "E">>, <<"P", "A", "T", "C", "H">>,
      <<"H", "E", "A", "D">>, <<"O", "P", "T", "I", "O", "N", "S">> }

isHTTPMethod(method) == ToUpper(TrimSpace(method)) \in methods

----------------------------------------------------------------------------
(* JSON header cells: json.Unmarshal into map[string]string *)

UnmarshalHeaders(text) ==
    CASE text = hdrRow -> [err |-> FALSE, m |-> ("X" :> "row")]
      [] text = hdrGlobal -> [err |-> FALSE, m |-> ("X" :> "glob" @@ "Y" :> "glob")]
      [] OTHER -> [err |-> TRUE, m |-> EmptyMap]

----------------------------------------------------------------------------
(* initGlobalConfig *)

\* The rows the loop of initGlobalConfig does not `continue` past.
GlobalCandidates(rs) ==
    { k \in 1..Len(rs) : ~(Len(rs[k]) < 2 \/ ~isHTTPMethod(Cell(rs[k], 1))) }

Min(S) == CHOOSE x \in S : \A y \in S : x <= y
Max(S) == CHOOSE x \in S : \A y \in S : x >= y

\* The values of firstToken and globalHeaders when initGlobalConfig returns,
\* starting from the fields New() sets.
initGlobalConfig(rs) ==
    IF GlobalCandidates(rs) = {}
    THEN [firstToken |-> "", globalHeaders |-> EmptyMap]
    ELSE LET row == rs[Min(GlobalCandidates(rs))]
             gh == IF Len(row) >= 12 /\ Cell(row, 11) # ""
                   THEN UnmarshalHeaders(Cell(row, 11))
                   ELSE [err |-> TRUE, m |-> EmptyMap]
         IN  [firstToken |-> IF Len(row) >= 11 THEN Cell(row, 10) ELSE "",
              globalHeaders |-> IF ~gh.err THEN gh.m ELSE EmptyMap]

----------------------------------------------------------------------------
(* findFirstBaseURL: the sheet is read again, so it scans `rows` *)

findFirstBaseURL(currentCaseName) ==
    LET hits == { k \in 1..Len(rows) :
                    Len(rows[k]) > 0 /\ Cell(rows[k], 0) = currentCaseName }
    IN  IF hits = {} THEN ""
        ELSE LET currentIndex == Min(hits)
                 withURL == { k \in 1..currentIndex :
                                Len(rows[k]) >= 10 /\ Cell(rows[k], 9) # "" }
             IN  IF withURL = {} THEN "" ELSE Cell(rows[Max(withURL)], 9)

----------------------------------------------------------------------------
(* parseRow *)

ZeroCase ==
    [CaseName |-> "", Method |-> <<>>, Path |-> "", Body |-> "",
     Headers |-> EmptyMap, Expected |-> "", StrictMatch |-> FALSE,
     BaseURL |-> "", Token |-> ""]

\* Steps 1-3 of parseRow: the row is rejected as not a test case.
RowRejected(row) ==
    \/ Len(row) = 0
    \/ Len(row) < 2 \/ ~isHTTPMethod(Cell(row, 1))
    \/ Len(row) < 8

RowHeaders(row) ==
    LET cur == IF Len(row) >= 7 /\ Cell(row, 6) # ""
               THEN UnmarshalHeaders(Cell(row, 6))
               ELSE [err |-> TRUE, m |-> EmptyMap]
    IN  IF ~cur.err THEN cur.m @@ globalHeaders ELSE globalHeaders

RowBaseURL(row) ==
    LET b == IF Len(row) >= 10 /\ Cell(row, 9) # ""
             THEN Cell(row, 9)
             ELSE findFirstBaseURL(Cell(row, 0))
    IN  IF b = "" THEN cfg.BaseURL ELSE b

\* Mutant of RowToken: the configured default is tried before the token
\* captured by initGlobalConfig.
RowToken_defaultFirst(row) ==
    LET t == IF Len(row) >= 11 /\ Cell(row, 10) # ""
             THEN Cell(row, 10)
             ELSE cfg.Authorization
    IN  IF t = "" THEN firstToken ELSE t

RowToken(row) ==
    LET t == IF Len(row) >= 11 /\ Cell(row, 10) # ""
             THEN Cell(row, 10)
             ELSE firstToken
    IN  IF t = "" THEN cfg.Authorization ELSE t

\* Mutant of globalHeadersAfterParseRow: headers is the field itself instead
\* of a copy, so the overlay of the row's headers is written into it.
globalHeadersAfterParseRow_aliased(row) ==
    IF RowRejected(row) THEN globalHeaders ELSE RowHeaders(row)

\* r.globalHeaders when parseRow(row) is over: parseRow only ranges over the
\* field; the entries and the overlay are written into the fresh map headers.
globalHeadersAfterParseRow(row) == globalHeaders

\* ok: the bool parseRow returns; panic: the index expression row[8] of the
\* struct literal is out of range and parseRow does not return.
parseRow(row) ==
    IF RowRejected(row)
    THEN [ok |-> FALSE, panic |-> FALSE, tc |-> ZeroCase]
    ELSE IF Len(row) <= 8
    THEN [ok |-> FALSE, panic |-> TRUE, tc |-> ZeroCase]
    ELSE [ok |-> TRUE, panic |-> FALSE,
          tc |-> [CaseName |-> Cell(row, 0), Method |-> Cell(row, 1),
                  Path |-> Cell(row, 2), Body |-> Cell(row, 5),
                  Headers |-> RowHeaders(row), Expected |-> Cell(row, 7),
                  StrictMatch |-> (Cell(row, 8) = "true"),
                  BaseURL |-> RowBaseURL(row), Token |-> RowToken(row)]]

----------------------------------------------------------------------------
(* Decoded JSON values (interface{} after json.Unmarshal) *)

JNull == [t |-> "null", v |-> 0]
JNum(n) == [t |-> "num", v |-> n]
JStr(s) == [t |-> "str", v |-> s]
JBool(b) == [t |-> "bool", v |-> b]
JObj(f) == [t |-> "obj", v |-> f]
JArr(q) == [t |-> "arr", v |-> q]

\* json.Unmarshal of a body text into map[string]interface{}.
UnmarshalObject(text) ==
    CASE text = okBody -> [err |-> FALSE, m |-> ("code" :> JNum(0))]
      [] text = failBody -> [err |-> FALSE, m |-> ("code" :> JNum(1))]
      [] text = bNoCode -> [err |-> FALSE, m |-> ("msg" :> JStr("ok"))]
      [] text = bCodeStr -> [err |-> FALSE, m |-> ("code" :> JStr("0"))]
      [] text = bCodeTrue -> [err |-> FALSE, m |-> ("code" :> JBool(TRUE))]
      [] text = bCodeObj -> [err |-> FALSE, m |-> ("code" :> JObj("n" :> JNum(0)))]
      [] text = bCodeArr -> [err |-> FALSE, m |-> ("code" :> JArr(<<JNum(0)>>))]
      [] text = bData ->
            [err |-> FALSE,
             m |-> ("code" :> JNum(0) @@ "data" :> JObj("id" :> JNum(1)))]
      [] text = bDataExtra ->
            [err |-> FALSE,
             m |-> ("code" :> JNum(0)
                      @@ "data" :> JObj("id" :> JNum(1) @@ "extra" :> JStr("x")))]
      [] text = bDataNoId ->
            [err |-> FALSE,
             m |-> ("code" :> JNum(0) @@ "data" :> JObj("extra" :> JStr("x")))]
      [] text = bList12 ->
            [err |-> FALSE,
             m |-> ("code" :> JNum(0) @@ "list" :> JArr(<<JNum(1), JNum(2)>>))]
      [] text = bList123 ->
            [err |-> FALSE,
             m |-> ("code" :> JNum(0) @@ "list" :> JArr(<<JNum(1), JNum(2), JNum(3)>>))]
      [] text = bMsgRegex ->
            [err |-> FALSE, m |-> ("code" :> JNum(0) @@ "msg" :> JStr("^ok.*$"))]
      [] text = bMsgTok ->
            [err |-> FALSE, m |-> ("code" :> JNum(0) @@ "msg" :> JStr("ok-token123"))]
      [] text = bMsgAbc ->
            [err |-> FALSE, m |-> ("code" :> JNum(0) @@ "msg" :> JStr("abc"))]
      [] text = bMsgNum ->
            [err |-> FALSE, m |-> ("code" :> JNum(0) @@ "msg" :> JNum(42))]
      [] text = bMsgData ->
            [err |-> FALSE,
             m |-> ("code" :> JNum(0) @@ "msg" :> JStr("abc")
                      @@ "data" :> JObj("id" :> JNum(1)))]
      [] text = bNull -> [err |-> FALSE, m |-> EmptyMap]
      [] OTHER -> [err |-> TRUE, m |-> EmptyMap]

\* regexp.MatchString(pattern, s): matched and err.
MatchString(pattern, s) ==
    CASE pattern = "^ok.*$" -> [matched |-> s \in {"ok", "ok-token123"}, err |-> FALSE]
      [] pattern = "^\\d+$" -> [matched |-> s \in {"42"}, err |-> FALSE]
      [] pattern = "^(" -> [matched |-> FALSE, err |-> TRUE]
      [] OTHER -> [matched |-> FALSE, err |-> FALSE]

HasPrefix(s, c) == s \in {"^ok.*$", "^\\d+$", "^("} /\ c = "^"
HasSuffix(s, c) == s \in {"^ok.*$", "^\\d+$"} /\ c = "$"

\* a == b on two interface{} values: "panic" when both hold the same
\* uncomparable dynamic type (map or slice).
IfaceEq(a, b) ==
    IF a.t # b.t THEN "false"
    ELSE IF a.t \in {"obj", "arr"} THEN "panic"
    ELSE IF a.t = "null" \/ a.v = b.v THEN "true"
    ELSE "false"

RECURSIVE DeepEqual(_, _)
DeepEqual(a, b) ==
    IF a.t # b.t THEN FALSE
    ELSE IF a.t = "null" THEN TRUE
    ELSE IF a.t = "obj"
         THEN /\ DOMAIN a.v = DOMAIN b.v
              /\ \A k \in DOMAIN a.v : DeepEqual(a.v[k], b.v[k])
    ELSE IF a.t = "arr"
         THEN /\ Len(a.v) = Len(b.v)
              /\ \A k \in 1..Len(a.v) : DeepEqual(a.v[k], b.v[k])
    ELSE a.v = b.v

RECURSIVE validateValue(_, _)
RECURSIVE validateMap(_, _)
RECURSIVE validateSlice(_, _)

validateValue(actual, expected) ==
    IF expected.t = "obj"
    THEN IF actual.t # "obj" THEN FALSE ELSE validateMap(actual.v, expected.v)
    ELSE IF expected.t = "arr"
    THEN IF actual.t # "arr" THEN FALSE ELSE validateSlice(actual.v, expected.v)
    ELSE IF expected.t = "str"
    THEN IF actual.t # "str" THEN FALSE
         ELSE IF HasPrefix(expected.v, "^") \/ HasSuffix(expected.v, "$")
              THEN LET r == MatchString(expected.v, actual.v)
                   IN  IF r.err THEN FALSE ELSE r.matched
              ELSE actual.v = expected.v
    ELSE DeepEqual(actual, expected)

validateSlice(actual, expected) ==
    IF Len(actual) < Len(expected) THEN FALSE
    ELSE \A k \in 1..Len(expected) : validateValue(actual[k], expected[k])

validateMap(actual, expected) ==
    \A key \in DOMAIN expected :
        /\ key \in DOMAIN actual
        /\ validateValue(actual[key], expected[key])

\* map index: a missing key yields nil.
MapGet(m, key) == IF key \in DOMAIN m THEN m[key] ELSE JNull

\* One iteration of the loose-mode loop of validateResponse for `key`:
\* "pass" (the loop goes on), "false" (return false) or "panic".
LooseKey(actualMap, expectedMap, key) ==
    LET expectedValue == expectedMap[key]
    IN  IF key \notin DOMAIN actualMap THEN "false"
        ELSE LET actualValue == actualMap[key]
             IN  IF /\ expectedValue.t = "str"
                    /\ (HasPrefix(expectedValue.v, "^") \/ HasSuffix(expectedValue.v, "$"))
                 THEN IF actualValue.t # "str" THEN "panic"
                      ELSE IF MatchString(expectedValue.v, actualValue.v).matched
                           THEN "pass" ELSE "false"
                 ELSE LET e == IfaceEq(actualValue, expectedValue)
                      IN  IF e = "true" THEN "pass" ELSE e

\* The outcomes validateResponse can have: "true", "false" or "panic".  The
\* loose-mode loop ranges over a Go map, whose iteration order is not fixed:
\* the key that ends the loop can be any key that does not pass.
validateResponse(actual, expected, strictMatch) ==
    LET a == UnmarshalObject(actual)
        e == UnmarshalObject(expected)
    IN  IF a.err THEN {"false"}
        ELSE IF e.err THEN {"false"}
        ELSE IF MapGet(a.m, "code").t = "null" \/ MapGet(e.m, "code").t = "null"
        THEN {"false"}
        ELSE IF IfaceEq(a.m["code"], e.m["code"]) # "true"
        THEN {IfaceEq(a.m["code"], e.m["code"])}
        ELSE IF strictMatch
        THEN {IF validateMap(a.m, e.m) THEN "true" ELSE "false"}
        ELSE LET stop == { key \in DOMAIN e.m \ {"code"} :
                             LooseKey(a.m, e.m, key) # "pass" }
             IN  IF stop = {} THEN {"true"}
                 ELSE { LooseKey(a.m, e.m, key) : key \in stop }

----------------------------------------------------------------------------
(* executeTest *)

\* http.NewRequest returns an error: the method is not a token (it holds a
\* space) or the URL does not parse.
NewRequestFails(method, path) ==
    \/ \E k \in 1..Len(method) : IsSpace(method[k])
    \/ path = "/%zz"

\* The target system: a fixed answer for each path.
Target(path) ==
    CASE path = "/ok" -> [kind |-> "body", body |-> okBody]
      [] path = "/bad" -> [kind |-> "body", body |-> failBody]
      [] path = "/cut" -> [kind |-> "readError", body |-> ""]
      [] path = "/nocode" -> [kind |-> "body", body |-> bNoCode]
      [] path = "/codestr" -> [kind |-> "body", body |-> bCodeStr]
      [] path = "/codetrue" -> [kind |-> "body", body |-> bCodeTrue]
      [] path = "/codeobj" -> [kind |-> "body", body |-> bCodeObj]
      [] path = "/codearr" -> [kind |-> "body", body |-> bCodeArr]
      [] path = "/data" -> [kind |-> "body", body |-> bData]
      [] path = "/dataextra" -> [kind |-> "body", body |-> bDataExtra]
      [] path = "/datanoid" -> [kind |-> "body", body |-> bDataNoId]
      [] path = "/list12" -> [kind |-> "body", body |-> bList12]
      [] path = "/list123" -> [kind |-> "body", body |-> bList123]
      [] path = "/msgregex" -> [kind |-> "body", body |-> bMsgRegex]
      [] path = "/msgtok" -> [kind |-> "body", body |-> bMsgTok]
      [] path = "/msgabc" -> [kind |-> "body", body |-> bMsgAbc]
      [] path = "/msgnum" -> [kind |-> "body", body |-> bMsgNum]
      [] path = "/msgdata" -> [kind |-> "body", body |-> bMsgData]
      [] path = "/null" -> [kind |-> "body", body |-> bNull]
      [] path = "/notjson" -> [kind |-> "body", body |-> bNotJSON]
      [] OTHER -> [kind |-> "doError", body |-> ""]

\* The header set of the request: Content-Type, then Authorization, then
\* the headers of the case, each Set overriding the earlier ones.
RequestHeaders(tc) ==
    tc.Headers
      @@ (IF tc.Token # "" THEN "Authorization" :> tc.Token ELSE EmptyMap)
      @@ ("Content-Type" :> "application/json")

\* toCurl of a request that was built; its text is kept as its parts.
toCurl(tc) ==
    [Method |-> tc.Method, Headers |-> RequestHeaders(tc), Body |-> tc.Body,
     URL |-> <<tc.BaseURL, tc.Path>>]

NoCurl == [Method |-> <<>>, Headers |-> EmptyMap, Body |-> "", URL |-> <<"", "">>]

\* The outcomes of executeTest: a returned TestResult, or a panic
\* (toCurl dereferences the nil request; validateResponse panics).
executeTest(caseNumber, tc) ==
    LET result == [CaseNumber |-> caseNumber, CaseName |-> tc.CaseName,
                   Success |-> FALSE, Error |-> "", ActualResult |-> "",
                   ExpectedResult |-> tc.Expected, Curl |-> NoCurl]
        resp == Target(tc.Path)
    IN  IF NewRequestFails(tc.Method, tc.Path)
        THEN {[panic |-> "toCurl", res |-> result]}
        ELSE IF resp.kind = "doError"
        THEN {[panic |-> "none",
               res |-> [result EXCEPT !.Curl = toCurl(tc), !.Error = "do request failed"]]}
        ELSE IF resp.kind = "readError"
        THEN {[panic |-> "none",
               res |-> [result EXCEPT !.Curl = toCurl(tc), !.Error = "read response failed"]]}
        ELSE { IF v = "panic"
               THEN [panic |-> "validateResponse", res |-> result]
               ELSE [panic |-> "none",
                     res |-> [result EXCEPT !.Curl = toCurl(tc),
                                            !.ActualResult = resp.body,
                                            !.Success = (v = "true")]]
               : v \in validateResponse(resp.body, tc.Expected, tc.StrictMatch) }

----------------------------------------------------------------------------
(* sortResults: the exchange sort of the source *)

Swap(s, i, j) == [s EXCEPT ![i] = s[j], ![j] = s[i]]

RECURSIVE SortInner(_, _, _)
SortInner(s, i, j) ==
    IF j > Len(s) THEN s
    ELSE IF s[i].CaseNumber > s[j].CaseNumber
         THEN SortInner(Swap(s, i, j), i, j + 1)
         ELSE SortInner(s, i, j + 1)

\* Mutant of SortOuter: the outer loop stops one position early.
RECURSIVE SortOuter_short(_, _)
SortOuter_short(s, i) ==
    IF i > Len(s) - 2 THEN s ELSE SortOuter_short(SortInner(s, i, i + 1), i + 1)

RECURSIVE SortOuter(_, _)
SortOuter(s, i) ==
    IF i > Len(s) - 1 THEN s ELSE SortOuter(SortInner(s, i, i + 1), i + 1)

\* Mutant of sortResults: the slice is returned in completion order.
sortResults_unsorted(s) == s

sortResults(s) == SortOuter(s, 1)

----------------------------------------------------------------------------
(* Inputs *)

\* Rows of the pool specification: a passing case, a failing case, a
\* transport failure, a body-read failure, a skipped row, a row whose method
\* cell makes http.NewRequest fail, and a row of exactly eight cells.
PoolRows ==
    { MkRow(12, "A", mGET, "/ok", "", "true", "U1", "T1", hdrGlobal),
      MkRow(9, "B", mPost, "/bad", hdrRow, "false", "", "", ""),
      MkRow(9, "C", mGET, "/down", "", "false", "", "", ""),
      MkRow(9, "D", mGET, "/cut", "", "false", "", "", ""),
      MkRow(12, "N", mFOO, "/ok", "", "true", "U2", "T2", hdrGlobal),
      MkRow(9, "P", mGetPadded, "/ok", "", "false", "", "", ""),
      MkRow(8, "E", mGET, "/ok", "", "", "", "", "") }

\* Rows of the resolution specification.
CaseRows ==
    { MkRow(12, "A", mGET, "/ok", hdrRow, "true", "U1", "T1", hdrGlobal),
      MkRow(12, "B", mGET, "/ok", "", "true", "U2", "T2", hdrBad),
      MkRow(12, "A", mPost, "/ok", hdrBad, "false", "", "", ""),
      MkRow(11, "B", mGetPadded, "/ok", "", "false", "", "T2", ""),
      MkRow(9, "C", mGET, "/ok", "", "false", "", "", ""),
      MkRow(8, "C", mGET, "/ok", "", "", "", "", ""),
      MkRow(12, "N", mFOO, "/ok", "", "true", "U2", "T2", hdrGlobal),
      MkRow(10, "A", mEmpty, "/ok", "", "true", "U1", "", ""),
      MkRow(2, "N", mGET, "", "", "", "", "", ""),
      MkRow(1, "N", mGET, "", "", "", "", "", ""),
      MkRow(0, "", mEmpty, "", "", "", "", "", "") }

\* A nine-cell case row that requests `path` and expects `expected`.
MkCase(path, expected, strict) ==
    <<"V", mGET, path, "", "", "", "", expected, strict>>

BodyPaths ==
    { "/ok", "/bad", "/nocode", "/codestr", "/codetrue", "/codeobj", "/codearr",
      "/data", "/dataextra", "/datanoid", "/list12", "/list123", "/msgregex",
      "/msgtok", "/msgabc", "/msgnum", "/msgdata", "/null", "/notjson" }

Templates ==
    { okBody, failBody, bNoCode, bCodeStr, bCodeTrue, bCodeObj, bCodeArr, bData,
      bDataExtra, bDataNoId, bList12, bList123, bMsgRegex, bMsgTok, bMsgAbc,
      bMsgNum, bMsgData, bNull, bNotJSON }

\* Rows of the validation specification: every answer of the target against
\* every expected template, strict and loose.
ValidateRows ==
    { MkCase(p, e, st) : p \in BodyPaths, e \in Templates, st \in {"true", "false"} }

RECURSIVE SeqsUpTo(_, _)
SeqsUpTo(S, n) ==
    IF n = 0 THEN {<<>>}
    ELSE LET shorter == SeqsUpTo(S, n - 1)
         IN  shorter \cup { Append(q, x) : q \in { r \in shorter : Len(r) = n - 1 }, x \in S }

NoJob == [caseNum |-> 0, row |-> <<>>]

NoResult ==
    [CaseNumber |-> 0, CaseName |-> "", Success |-> FALSE, Error |-> "",
     ActualResult |-> "", ExpectedResult |-> "", Curl |-> NoCurl]

\* The state after New(): no token, an empty header map, nothing started.
InitRunner ==
    /\ firstToken = ""
    /\ globalHeaders = EmptyMap
    /\ runPc = "start"
    /\ idx = 1
    /\ totalTests = 0
    /\ jobChan = <<>>
    /\ jobsClosed = FALSE
    /\ resultChan = <<>>
    /\ wg = 0
    /\ wpc = <<>>
    /\ wjob = <<>>
    /\ wres = <<>>
    /\ results = <<>>
    /\ crash = "none"
    /\ parsed = <<>>
    /\ taken = 0
    /\ produced = <<>>

Init ==
    /\ rows \in SeqsUpTo(PoolRows, MaxRows)
    /\ cfg \in [Concurrent : 1..MaxW, BaseURL : {"D"}, Authorization : {""}]
    /\ InitRunner

InitResolve ==
    /\ rows \in SeqsUpTo(CaseRows, MaxCaseRows)
    /\ cfg \in [Concurrent : {1}, BaseURL : {"", "D"}, Authorization : {"", "TD"}]
    /\ InitRunner

\* A sheet of one case, or of the same case twice.
InitValidate ==
    /\ rows \in { <<r>> : r \in ValidateRows } \cup { <<r, r>> : r \in ValidateRows }
    /\ cfg \in [Concurrent : {1}, BaseURL : {"D"}, Authorization : {""}]
    /\ InitRunner

----------------------------------------------------------------------------
(* Run *)

\* Mutant of Workers: the start loop runs once too often (i <= Concurrent).
Workers_oneMore == 1..(cfg.Concurrent + 1)

\* The goroutines `go r.worker(...)` starts: i = 0 .. Concurrent-1.
Workers == 1..cfg.Concurrent

\* Run up to the dispatch loop: the sheet is read, an empty sheet is an
\* error, the global configuration is initialised, the channels are made and
\* the workers are started.
Start ==
    /\ crash = "none"
    /\ runPc = "start"
    /\ IF Len(rows) = 0
       THEN /\ runPc' = "error"
            /\ UNCHANGED <<firstToken, globalHeaders, wpc, wjob, wres>>
       ELSE /\ runPc' = "dispatch"
            /\ firstToken' = initGlobalConfig(rows).firstToken
            /\ globalHeaders' = initGlobalConfig(rows).globalHeaders
            /\ wpc' = [w \in Workers |-> "recv"]
            /\ wjob' = [w \in Workers |-> NoJob]
            /\ wres' = [w \in Workers |-> NoResult]
    /\ UNCHANGED <<rows, cfg, idx, totalTests, jobChan, jobsClosed, resultChan,
                   wg, results, crash, parsed, taken, produced>>

\* One iteration of the dispatch loop: parseRow, and for a case wg.Add(1),
\* totalTests++ and the send of the job with rowNum = i + 2.
Dispatch ==
    /\ crash = "none"
    /\ runPc = "dispatch"
    /\ idx <= Len(rows)
    /\ LET p == parseRow(rows[idx])
       IN  /\ parsed' = Append(parsed, p)
           /\ IF p.panic
              THEN /\ crash' = "parseRow"
                   /\ UNCHANGED <<idx, wg, totalTests, jobChan>>
              ELSE /\ crash' = crash
                   /\ idx' = idx + 1
                   /\ IF p.ok
                      THEN /\ wg' = wg + 1
                           /\ totalTests' = totalTests + 1
                           /\ jobChan' = Append(jobChan, [caseNum |-> (idx - 1) + 2,
                                                          row |-> rows[idx]])
                      ELSE UNCHANGED <<wg, totalTests, jobChan>>
    /\ globalHeaders' = globalHeadersAfterParseRow(rows[idx])
    /\ UNCHANGED <<rows, cfg, firstToken, runPc, jobsClosed,
                   resultChan, wpc, wjob, wres, results, taken, produced>>

\* close(jobChan) after the loop.
CloseJobs ==
    /\ crash = "none"
    /\ runPc = "dispatch"
    /\ idx > Len(rows)
    /\ jobsClosed' = TRUE
    /\ runPc' = "wait"
    /\ UNCHANGED <<rows, cfg, firstToken, globalHeaders, idx, totalTests, jobChan,
                   resultChan, wg, wpc, wjob, wres, results, crash, parsed,
                   taken, produced>>

\* Mutant of Wait: Run goes on without waiting for the counter to reach zero.
Wait_noBlock ==
    /\ crash = "none"
    /\ runPc = "wait"
    /\ runPc' = "collect"
    /\ UNCHANGED <<rows, cfg, firstToken, globalHeaders, idx, totalTests, jobChan,
                   jobsClosed, resultChan, wg, wpc, wjob, wres, results, crash,
                   parsed, taken, produced>>

\* wg.Wait() returns and resultChan is closed.
Wait ==
    /\ crash = "none"
    /\ runPc = "wait"
    /\ wg = 0
    /\ runPc' = "collect"
    /\ UNCHANGED <<rows, cfg, firstToken, globalHeaders, idx, totalTests, jobChan,
                   jobsClosed, resultChan, wg, wpc, wjob, wres, results, crash,
                   parsed, taken, produced>>

\* The closed result channel is drained into the slice, the slice is sorted
\* and Run returns it.
Collect ==
    /\ crash = "none"
    /\ runPc = "collect"
    /\ results' = sortResults(resultChan)
    /\ resultChan' = <<>>
    /\ runPc' = "returned"
    /\ UNCHANGED <<rows, cfg, firstToken, globalHeaders, idx, totalTests, jobChan,
                   jobsClosed, wg, wpc, wjob, wres, crash, parsed, taken, produced>>

----------------------------------------------------------------------------
(* worker *)

\* `for job := range jobs` receives a job.
WorkerRecv(w) ==
    /\ crash = "none"
    /\ wpc[w] = "recv"
    /\ jobChan # <<>>
    /\ wjob' = [wjob EXCEPT ![w] = Head(jobChan)]
    /\ jobChan' = Tail(jobChan)
    /\ taken' = taken + 1
    /\ wpc' = [wpc EXCEPT ![w] = "exec"]
    /\ UNCHANGED <<rows, cfg, firstToken, globalHeaders, runPc, idx, totalTests,
                   jobsClosed, resultChan, wg, wres, results, crash, parsed, produced>>

\* The range loop ends: the channel is closed and empty.
WorkerExit(w) ==
    /\ crash = "none"
    /\ wpc[w] = "recv"
    /\ jobChan = <<>>
    /\ jobsClosed
    /\ wpc' = [wpc EXCEPT ![w] = "exit"]
    /\ UNCHANGED <<rows, cfg, firstToken, globalHeaders, runPc, idx, totalTests,
                   jobChan, jobsClosed, resultChan, wg, wjob, wres, results, crash,
                   parsed, taken, produced>>

\* parseRow(job.row) and executeTest(job.caseNum, testCase).
WorkerExec(w) ==
    /\ crash = "none"
    /\ wpc[w] = "exec"
    /\ LET p == parseRow(wjob[w].row)
       IN  IF p.panic
           THEN /\ crash' = "parseRow"
                /\ UNCHANGED <<wpc, wres>>
           ELSE \E o \in executeTest(wjob[w].caseNum, p.tc) :
                   IF o.panic # "none"
                   THEN /\ crash' = o.panic
                        /\ UNCHANGED <<wpc, wres>>
                   ELSE /\ crash' = crash
                        /\ wres' = [wres EXCEPT ![w] = o.res]
                        /\ wpc' = [wpc EXCEPT ![w] = "send"]
    /\ globalHeaders' = globalHeadersAfterParseRow(wjob[w].row)
    /\ UNCHANGED <<rows, cfg, firstToken, runPc, idx, totalTests,
                   jobChan, jobsClosed, resultChan, wg, wjob, results, parsed,
                   taken, produced>>

\* results <- result; the channel has room for len(testCases) results.
WorkerSend(w) ==
    /\ crash = "none"
    /\ wpc[w] = "send"
    /\ Len(resultChan) < Len(rows)
    /\ resultChan' = Append(resultChan, wres[w])
    /\ produced' = Append(produced, wres[w])
    /\ wpc' = [wpc EXCEPT ![w] = "done"]
    /\ UNCHANGED <<rows, cfg, firstToken, globalHeaders, runPc, idx, totalTests,
                   jobChan, jobsClosed, wg, wjob, wres, results, crash, parsed, taken>>

\* wg.Done()
WorkerDone(w) ==
    /\ crash = "none"
    /\ wpc[w] = "done"
    /\ wg' = wg - 1
    /\ wjob' = [wjob EXCEPT ![w] = NoJob]
    /\ wres' = [wres EXCEPT ![w] = NoResult]
    /\ wpc' = [wpc EXCEPT ![w] = "recv"]
    /\ UNCHANGED <<rows, cfg, firstToken, globalHeaders, runPc, idx, totalTests,
                   jobChan, jobsClosed, resultChan, results, crash, parsed, taken,
                   produced>>

Worker(w) ==
    \/ WorkerRecv(w)
    \/ WorkerExit(w)
    \/ WorkerExec(w)
    \/ WorkerSend(w)
    \/ WorkerDone(w)

----------------------------------------------------------------------------
(* Specifications *)

RunStep == Start \/ Dispatch \/ CloseJobs \/ Wait \/ Collect

Next == RunStep \/ \E w \in DOMAIN wpc : Worker(w)

\* The pool: Run and its workers, every interleaving.
Spec == Init /\ [][Next]_vars

\* The pool under the scheduling of the Go runtime: a goroutine that can
\* take a step eventually takes it.
FairSpec ==
    /\ Init
    /\ [][Next]_vars
    /\ WF_vars(RunStep)
    /\ \A w \in 1..MaxW : WF_vars(w \in DOMAIN wpc /\ Worker(w))

\* Case resolution: initGlobalConfig and the parseRow of the dispatch loop
\* applied to every row of a sheet.
NextResolve == Start \/ Dispatch

ResolveSpec == InitResolve /\ [][NextResolve]_vars

\* Response validation: the run of a sheet that holds one case, once or
\* twice, so that validateResponse is applied to every pair of an answer and
\* a template in both modes.
ValidateSpec == InitValidate /\ [][Next]_vars

----------------------------------------------------------------------------
(* Properties of the pool (Spec, FairSpec) *)

Count(s, x) == Cardinality({ j \in 1..Len(s) : s[j] = x })

\* The case numbers of the jobs the dispatch loop has enqueued.
Enqueued == { k + 1 : k \in { j \in 1..Len(parsed) : parsed[j].ok } }

CaseNumbers(s) == { s[j].CaseNumber : j \in 1..Len(s) }

\* C1: Run does not get past wg.Wait() before every enqueued job has
\* delivered its result, no job is received more often than it was enqueued,
\* and the slice Run returns holds exactly one result for every enqueued job
\* (one per row for which parseRow said ok) and nothing else.
C1_OneResultPerJob ==
    /\ taken <= totalTests
    /\ Len(produced) <= taken
    /\ runPc \in {"collect", "returned"} =>
          /\ Len(produced) = totalTests
          /\ Cardinality(Enqueued) = totalTests
    /\ runPc = "returned" =>
          /\ Len(results) = totalTests
          /\ CaseNumbers(results) = Enqueued
          /\ \A n \in Enqueued :
                Cardinality({ j \in 1..Len(results) : results[j].CaseNumber = n }) = 1

C1_Witness ==
    /\ runPc = "returned"
    /\ cfg.Concurrent >= 2
    /\ Len(results) >= 2
    /\ Len(results) < Len(rows)

RunEnded == runPc \in {"returned", "error"}

AllWorkersExited == \A w \in DOMAIN wpc : wpc[w] = "exit"

\* C2: under fair scheduling every worker eventually leaves its range loop
\* and Run eventually returns.
C2_RunTerminates == <>(RunEnded /\ AllWorkersExited)

\* The jobs received from the queue whose result has not been delivered.
InFlight == taken - Len(produced)

\* C3: at most Concurrent jobs are in flight in every reachable state.
C3_InFlightBounded == InFlight <= cfg.Concurrent

C3_Witness ==
    /\ cfg.Concurrent >= 2
    /\ InFlight = cfg.Concurrent
    /\ jobChan # <<>>

\* C4: the slice Run returns is a permutation of the results the workers
\* sent, in strictly ascending case number, and a result's case number is
\* the sheet row of its case: Go index i (TLA+ index i+1) has number i+2.
C4_SortedPermutation ==
    runPc = "returned" =>
        /\ \A j \in 1..(Len(results) - 1) :
              results[j].CaseNumber < results[j + 1].CaseNumber
        /\ Len(results) = Len(produced)
        /\ \A j \in 1..Len(produced) :
              Count(results, produced[j]) = Count(produced, produced[j])
        /\ \A j \in 1..Len(results) :
              /\ results[j].CaseNumber - 1 \in 1..Len(rows)
              /\ parsed[results[j].CaseNumber - 1].ok
              /\ results[j].CaseName = Cell(rows[results[j].CaseNumber - 1], 0)

\* The workers delivered in an order that is not the order of the rows.
C4_Witness ==
    /\ runPc = "returned"
    /\ Len(produced) >= 2
    /\ \E j \in 1..(Len(produced) - 1) :
          produced[j].CaseNumber > produced[j + 1].CaseNumber

Outcomes(s) == [j \in 1..Len(s) |-> <<s[j].CaseNumber, s[j].Success>>]

\* The (case number, success) pairs of the sheet, row after row, computed
\* without pool, queue or sort: they depend on the rows, the configuration
\* defaults and the target, not on Concurrent or on the schedule.
RECURSIVE SheetOutcomes(_)
SheetOutcomes(k) ==
    IF k = 0 THEN <<>>
    ELSE LET p == parseRow(rows[k])
         IN  IF ~p.ok THEN SheetOutcomes(k - 1)
             ELSE LET o == CHOOSE x \in executeTest(k + 1, p.tc) : TRUE
                  IN  Append(SheetOutcomes(k - 1), <<k + 1, o.res.Success>>)

\* C5: whatever the pool width and the interleaving, the run returns the
\* (case number, success) sequence of the sheet; so two runs of the same
\* sheet against the same target with different widths return the same one.
C5_WidthInvariantOutcomes ==
    runPc = "returned" => Outcomes(results) = SheetOutcomes(Len(rows))

C5_Witness ==
    /\ runPc = "returned"
    /\ cfg.Concurrent >= 2
    /\ \E j \in 1..(Len(produced) - 1) :
          produced[j].CaseNumber > produced[j + 1].CaseNumber
    /\ \E j \in 1..Len(results) : results[j].Success
    /\ \E j \in 1..Len(results) : ~results[j].Success

\* The job of case number n fails before validation: building the request,
\* the transport or the read of the body.
FailsBeforeValidation(n) ==
    LET row == rows[n - 1]
    IN  \/ NewRequestFails(Cell(row, 1), Cell(row, 2))
        \/ Target(Cell(row, 2)).kind # "body"

\* C6: a job that fails before validation yields a result with
\* success=false and an error text and no validated body, and the failure
\* leaves the run alive: the process is not ended by executeTest.
C6_FailureContained ==
    /\ crash # "toCurl"
    /\ \A w \in DOMAIN wpc :
          (wpc[w] \in {"send", "done"} /\ FailsBeforeValidation(wjob[w].caseNum)) =>
              /\ ~wres[w].Success
              /\ wres[w].Error # ""
              /\ wres[w].ActualResult = ""

----------------------------------------------------------------------------
(* Properties of case resolution (ResolveSpec) *)

Verbs ==
    { <<"G", "E", "T">>, <<"P", "O", "S", "T">>, <<"P", "U", "T">>,
      <<"D", "E", "L", "E", "T", "E">>, <<"P", "A", "T", "C", "H">>,
      <<"H", "E", "A", "D">>, <<"O", "P", "T", "I", "O", "N", "S">> }

\* The qualification of the specification: at least eight cells and a
\* method cell that is a verb once trimmed and upper-cased.
Qualifies(row) ==
    /\ Len(row) >= 8
    /\ ToUpper(TrimSpace(Cell(row, 1))) \in Verbs

\* C7: every row the dispatch loop has handled got a decision, and it is
\* included as a case iff it has at least 8 cells and a recognised method.
C7_InclusionByColumnsAndMethod ==
    \A k \in 1..Len(parsed) :
        /\ ~parsed[k].panic
        /\ parsed[k].ok = Qualifies(rows[k])

\* C8: parseRow ends with a fully populated case or with the not-a-case
\* signal, and every row that passes the qualification resolves to a case.
C8_QualifiedRowResolves ==
    \A k \in 1..Len(parsed) :
        /\ ~parsed[k].panic
        /\ ~parsed[k].ok => parsed[k].tc = ZeroCase
        /\ Qualifies(rows[k]) =>
              /\ parsed[k].ok
              /\ parsed[k].tc.CaseName = Cell(rows[k], 0)
              /\ parsed[k].tc.Method = Cell(rows[k], 1)
              /\ parsed[k].tc.Expected = Cell(rows[k], 7)

\* C9: once the global configuration is initialised, the fallback token and
\* the fallback headers are those of the first qualifying row (empty when
\* it has none or no row qualifies), and no later step changes them.
C9_GlobalsFromFirstQualifyingRow ==
    runPc # "start" =>
        LET Q == { k \in 1..Len(rows) : Qualifies(rows[k]) }
        IN  IF Q = {}
            THEN firstToken = "" /\ globalHeaders = EmptyMap
            ELSE LET row == rows[Min(Q)]
                 IN  /\ firstToken = (IF Len(row) >= 11 THEN Cell(row, 10) ELSE "")
                     /\ globalHeaders =
                           (IF Len(row) >= 12 /\ ~UnmarshalHeaders(Cell(row, 11)).err
                            THEN UnmarshalHeaders(Cell(row, 11)).m
                            ELSE EmptyMap)

\* C10: a resolved case whose base-URL cell is empty has the base URL of the
\* nearest preceding qualifying row that has one, else the configured default.
C10_BaseURLFromNearestQualifying ==
    \A k \in 1..Len(parsed) :
        (parsed[k].ok /\ (Len(rows[k]) < 10 \/ Cell(rows[k], 9) = "")) =>
            LET P == { j \in 1..(k - 1) :
                         /\ Qualifies(rows[j])
                         /\ Len(rows[j]) >= 10
                         /\ Cell(rows[j], 9) # "" }
            IN  parsed[k].tc.BaseURL =
                    (IF P = {} THEN cfg.BaseURL ELSE Cell(rows[Max(P)], 9))

\* The token cell of a row, empty when the row has no such cell.
OwnToken(row) == IF Len(row) >= 11 THEN Cell(row, 10) ELSE ""

\* C11: the token of a resolved case is the row's own token cell when that
\* is non-empty, else the captured global token when that is non-empty, else
\* the configured default token.
C11_TokenFallbackChain ==
    \A k \in 1..Len(parsed) :
        parsed[k].ok =>
            parsed[k].tc.Token =
                (IF OwnToken(rows[k]) # "" THEN OwnToken(rows[k])
                 ELSE IF firstToken # "" THEN firstToken
                 ELSE cfg.Authorization)

\* A case without a token of its own took the captured token although a
\* default is configured, and another case of the sheet used its own cell.
C11_Witness ==
    /\ cfg.Authorization # ""
    /\ firstToken # ""
    /\ \E k \in 1..Len(parsed) :
          parsed[k].ok /\ OwnToken(rows[k]) = "" /\ parsed[k].tc.Token = firstToken
    /\ \E k \in 1..Len(parsed) :
          parsed[k].ok /\ OwnToken(rows[k]) # "" /\ OwnToken(rows[k]) # firstToken

----------------------------------------------------------------------------
(* Properties of response validation (ValidateSpec) *)

CaseNums == 2..(Len(rows) + 1)

\* The inputs of validateResponse for the case of number n.
ActualOf(n) == Target(Cell(rows[n - 1], 2)).body
ExpectedOf(n) == Cell(rows[n - 1], 7)
StrictOf(n) == Cell(rows[n - 1], 8) = "true"

\* The validation of case n returned a verdict / the verdict it returned.
HasVerdict(n) == \E j \in 1..Len(produced) : produced[j].CaseNumber = n
VerdictOf(n) ==
    produced[CHOOSE j \in 1..Len(produced) : produced[j].CaseNumber = n].Success

\* The validation of case n panicked instead of returning a verdict.
Panicked(n) ==
    /\ crash = "validateResponse"
    /\ \E w \in DOMAIN wpc : wpc[w] = "exec" /\ wjob[w].caseNum = n

BothParse(n) ==
    ~UnmarshalObject(ActualOf(n)).err /\ ~UnmarshalObject(ExpectedOf(n)).err

\* `code` is present (not null) in both bodies.
CodeInBoth(n) ==
    /\ BothParse(n)
    /\ MapGet(UnmarshalObject(ActualOf(n)).m, "code").t # "null"
    /\ MapGet(UnmarshalObject(ExpectedOf(n)).m, "code").t # "null"

\* `code` is present in both bodies with equal decoded values.
CodesEqual(n) ==
    /\ CodeInBoth(n)
    /\ DeepEqual(UnmarshalObject(ActualOf(n)).m["code"],
                 UnmarshalObject(ExpectedOf(n)).m["code"])

\* The keys of the expected template other than `code`.
OtherKeys(n) == DOMAIN UnmarshalObject(ExpectedOf(n)).m \ {"code"}

\* The structural rule of the specification applied to the whole template.
Structural(n) ==
    /\ CodesEqual(n)
    /\ validateMap(UnmarshalObject(ActualOf(n)).m, UnmarshalObject(ExpectedOf(n)).m)

\* C12: in both modes a verdict of true implies that `code` is present in
\* both bodies with equal values, and the gate returns a verdict whatever
\* the JSON type of `code` is (templates with no other key: nothing but the
\* gate decides).
C12_CodeGate ==
    \A n \in CaseNums :
        /\ (HasVerdict(n) /\ VerdictOf(n)) => CodesEqual(n)
        /\ (CodeInBoth(n) /\ OtherKeys(n) = {}) => ~Panicked(n)

\* C13: when a top-level key of the template holds an object, both modes
\* return the verdict of the recursive rule; template {code:0,data:{id:1}}
\* passes against an answer with an extra key in data and fails against one
\* without id.
C13_NestedObjectBothModes ==
    \A n \in CaseNums :
        LET e == UnmarshalObject(ExpectedOf(n)).m
        IN  (BothParse(n) /\ \E key \in OtherKeys(n) : e[key].t = "obj") =>
                /\ ~Panicked(n)
                /\ HasVerdict(n) =>
                      /\ VerdictOf(n) = Structural(n)
                      /\ (ExpectedOf(n) = bData /\ ActualOf(n) = bDataExtra) => VerdictOf(n)
                      /\ (ExpectedOf(n) = bData /\ ActualOf(n) = bDataNoId) => ~VerdictOf(n)

\* C14: when a top-level key of the template holds an array, both modes
\* return the verdict of the array rule; [1,2] passes against [1,2,3] and
\* [1,2,3] fails against [1,2].
C14_ArrayPrefixBothModes ==
    \A n \in CaseNums :
        LET e == UnmarshalObject(ExpectedOf(n)).m
        IN  (BothParse(n) /\ \E key \in OtherKeys(n) : e[key].t = "arr") =>
                /\ ~Panicked(n)
                /\ HasVerdict(n) =>
                      /\ VerdictOf(n) = Structural(n)
                      /\ (ExpectedOf(n) = bList12 /\ ActualOf(n) = bList123) => VerdictOf(n)
                      /\ (ExpectedOf(n) = bList123 /\ ActualOf(n) = bList12) => ~VerdictOf(n)

\* The rule of the specification for an expected string.
StringRule(actual, expected) ==
    /\ actual.t = "str"
    /\ IF HasPrefix(expected.v, "^") \/ HasSuffix(expected.v, "$")
       THEN MatchString(expected.v, actual.v).matched
       ELSE actual.v = expected.v

\* C15: when the other keys of the template all hold strings, both modes
\* return a verdict, and it is true iff the codes are equal and every such
\* key is present with a string that matches (regular expression) or equals
\* (any other string) the expected one.
C15_RegexLeafBothModes ==
    \A n \in CaseNums :
        LET a == UnmarshalObject(ActualOf(n)).m
            e == UnmarshalObject(ExpectedOf(n)).m
        IN  (CodeInBoth(n) /\ OtherKeys(n) # {}
               /\ \A key \in OtherKeys(n) : e[key].t = "str") =>
                /\ ~Panicked(n)
                /\ HasVerdict(n) =>
                      VerdictOf(n) =
                         (/\ CodesEqual(n)
                          /\ \A key \in OtherKeys(n) :
                                key \in DOMAIN a /\ StringRule(a[key], e[key]))

SameInputs(m, n) ==
    /\ ActualOf(m) = ActualOf(n)
    /\ ExpectedOf(m) = ExpectedOf(n)
    /\ StrictOf(m) = StrictOf(n)

\* C16: two validations of identical inputs end the same way: both return
\* the same verdict, and none panics where the other returned.
C16_SameInputsSameVerdict ==
    \A m, n \in CaseNums :
        SameInputs(m, n) =>
            /\ (HasVerdict(m) /\ HasVerdict(n)) => VerdictOf(m) = VerdictOf(n)
            /\ HasVerdict(m) => ~Panicked(n)

\* C17: in loose mode a verdict is true whenever `code` is present in both
\* bodies with equal values, whatever the other fields are.
C17_LooseOnlyComparesCode ==
    \A n \in CaseNums :
        (HasVerdict(n) /\ ~StrictOf(n) /\ CodesEqual(n)) => VerdictOf(n)

----------------------------------------------------------------------------
(* Frame of the shared state (Spec) *)

\* The headers of the row's own cell, empty when it is absent or malformed.
OwnHeaders(row) ==
    IF Len(row) >= 7 /\ ~UnmarshalHeaders(Cell(row, 6)).err
    THEN UnmarshalHeaders(Cell(row, 6)).m
    ELSE EmptyMap

\* C18: the fallback token and the global headers are those computed by
\* initGlobalConfig before any worker has taken a job; once Run has started
\* its workers no step of Run or of a worker changes them or the
\* configuration; the headers of a resolved case are the global headers
\* overlaid key by key with the row's own.
C18_SharedStateFrozen ==
    /\ [](taken > 0 =>
            /\ firstToken = initGlobalConfig(rows).firstToken
            /\ globalHeaders = initGlobalConfig(rows).globalHeaders)
    /\ [][runPc # "start" =>
            /\ firstToken' = firstToken
            /\ globalHeaders' = globalHeaders
            /\ cfg' = cfg]_vars
    /\ [](\A k \in 1..Len(parsed) :
            parsed[k].ok =>
                LET H == parsed[k].tc.Headers
                    own == OwnHeaders(rows[k])
                IN  /\ DOMAIN H = DOMAIN own \cup DOMAIN globalHeaders
                    /\ \A key \in DOMAIN H :
                          H[key] = IF key \in DOMAIN own THEN own[key]
                                   ELSE globalHeaders[key])

\* A worker has resolved and executed a case whose own header overrides a
\* global one, and the global mapping still holds its own value.
C18_Witness ==
    /\ taken > 0
    /\ "X" \in DOMAIN globalHeaders
    /\ globalHeaders["X"] = "glob"
    /\ \E w \in DOMAIN wpc :
          /\ wpc[w] \in {"send", "done"}
          /\ "X" \in DOMAIN OwnHeaders(wjob[w].row)
          /\ wres[w].Curl.Headers["X"] = "row"
          /\ wres[w].Curl.Headers["Y"] = "glob"

====
